---------------------------- MODULE Spec2Model ----------------------------
(***************************************************************************)
(* SequentialExecutor::Execute of                                          *)
(* onnxruntime/core/framework/sequential_executor.cc as a state machine.   *)
(*                                                                         *)
(* One run of Execute is followed from the state right after the           *)
(* ExecutionFrame has been constructed (line 54) to the return.  The       *)
(* position inside the function is pc; every call the executor makes on a  *)
(* collaborator (kernel lookup, fences, Compute, ReleaseMLValue,           *)
(* GetOutputs, GeneratePatterns, UpdateMemoryPatternGroupCache) is         *)
(* appended to log in the order the code issues it.  Another thread may    *)
(* set terminate_flag at any moment.  Step numbers are 0-based, as the     *)
(* indices of exec_plan_vec are.                                           *)
(***************************************************************************)
EXTENDS Integers, Sequences, FiniteSets

VARIABLES
    execution_plan,   \* seq_exec_plan.execution_plan: <<[node_index, free_from_index, free_to_index]>>
    to_be_freed,      \* seq_exec_plan.to_be_freed: sequence of slot indices
    node_has_fence,   \* the nodes n with seq_exec_plan.NodeHasFence(n)
    fenced,           \* the slots whose value, once bound, carries a fence
    feeds,            \* the feeds argument: <<[is_tensor, shape]>>
    fetch_mlvalue_idxs, \* the fetch_mlvalue_idxs argument: the requested output slots
    has_planner,      \* frame.HasMemoryPatternPlanner()
    terminate_flag,   \* terminate_flag_
    pc,               \* position inside Execute
    step,             \* 0-based index of the current element of exec_plan_vec
    slots,            \* the frame's value table: slot -> "empty" | "allocated" | "bound" | "released"
    fetches,          \* the caller's output sinks: <<>> until GetOutputs fills them
    cache,            \* the session's memory pattern cache: the signatures it holds
    cache_calls,      \* the keys passed to UpdateMemoryPatternGroupCache, in call order
    compute_status,   \* the Status the last kernel Compute returned
    status,           \* the Status Execute returns (meaningful when pc = "done")
    log,              \* every collaborator call made so far, in order
    run,              \* the number of this run among the session's runs, from 1
    session           \* what the session's earlier runs did: <<[key, computed, ok]>>

vars == <<execution_plan, to_be_freed, node_has_fence, fenced, feeds,
          fetch_mlvalue_idxs, has_planner, terminate_flag, pc, step, slots, fetches, cache,
          cache_calls, compute_status, status, log, run, session>>

inputs == <<execution_plan, to_be_freed, node_has_fence, fenced, feeds,
            fetch_mlvalue_idxs, has_planner>>

\* what one run leaves alone of the session's history
history == <<run, session>>

-----------------------------------------------------------------------------
(* Bounds of the model *)

\* the longest plan (number of steps N ranges over 0..MaxSteps)
MaxSteps == 3

\* the longest to_be_freed list
MaxFree == 2

\* the largest number of slots whose values carry a fence
MaxFenced == 2

\* the largest number of runs made one after the other on one session
MaxRuns == 3

-----------------------------------------------------------------------------
(* Status *)

\* common::StatusCategory / StatusCode values used below
ONNXRUNTIME == "ONNXRUNTIME"
SYSTEM == "SYSTEM"
FAIL == "FAIL"
INVALID_ARGUMENT == "INVALID_ARGUMENT"
NOT_IMPLEMENTED == "NOT_IMPLEMENTED"

\* Status(category, code, msg); the message is the sequence of its pieces
MakeStatus(category, code, msg) == [category |-> category, code |-> code, msg |-> msg]

\* Status::OK()
StatusOK == MakeStatus("NONE", "OK", <<>>)

IsOK(s) == s.code = "OK"

\* the piece p occurs in message m
Contains(m, p) == \E i \in 1..Len(m) : m[i] = p

-----------------------------------------------------------------------------
(* The graph the session was built for: three nodes in a chain A -> B -> C  *)
(* over five value slots.  Slots 1 and 2 are graph inputs.                  *)

Slots == 1..5
Nodes == {1, 2, 3}

\* the graph's topological order, by node index: A = 2, B = 3, C = 1
TopoOrder == <<2, 3, 1>>

\* the slots the feeds are bound to, in feed order (feed_mlvalue_idxs)
FeedSlots == <<1, 2>>

kCpuExecutionProvider == "CPUExecutionProvider"
kCudaExecutionProvider == "CUDAExecutionProvider"
OrtMemTypeCPUInput == "OrtMemTypeCPUInput"
OrtMemTypeDefault == "OrtMemTypeDefault"

\* Node::Name()
NodeName(n) == CASE n = 2 -> "A" [] n = 3 -> "B" [] OTHER -> "C"

\* Node::GetExecutionProviderType()
GetExecutionProviderType(n) ==
    CASE n = 2 -> kCudaExecutionProvider
      [] n = 3 -> kCudaExecutionProvider
      [] OTHER -> "DmlExecutionProvider"

\* KernelDef::ExecQueueId()
ExecQueueId(n) == CASE n = 2 -> 1 [] n = 3 -> 2 [] OTHER -> 0

\* the slots of the node's explicit inputs, by position (position p is p + 1 here)
InputDefs(n) == CASE n = 2 -> <<1>> [] n = 3 -> <<3, 3>> [] OTHER -> <<4>>

\* Node::ImplicitInputDefs(): the slots of the node's implicit inputs
ImplicitInputDefs(n) == CASE n = 2 -> <<>> [] n = 3 -> <<2>> [] OTHER -> <<1>>

\* the slots of the node's outputs
OutputDefs(n) == CASE n = 2 -> <<3>> [] n = 3 -> <<4>> [] OTHER -> <<5>>

\* KernelDef::InputMemoryType(input_index), input_index 0-based; an index the
\* kernel declares nothing for has the default memory type
InputMemoryType(n, input_index) ==
    CASE n = 3 /\ input_index = 0 -> OrtMemTypeCPUInput
      [] n = 1 /\ input_index = 0 -> OrtMemTypeDefault
      [] OTHER -> OrtMemTypeDefault

\* the memory type declared for the implicit input itself
ImplicitInputMemoryType(n, input_index) ==
    CASE n = 1 /\ input_index = 0 -> OrtMemTypeCPUInput
      [] OTHER -> OrtMemTypeDefault

\* OpKernelContext::InputCount / ImplicitInputCount / OutputCount
InputCount(n) == Len(InputDefs(n))
ImplicitInputCount(n) == Len(ImplicitInputDefs(n))
OutputCount(n) == Len(OutputDefs(n))

-----------------------------------------------------------------------------
(* The inputs of a run *)

Range(f) == {f[i] : i \in DOMAIN f}

Injective(f) == \A i, j \in DOMAIN f : f[i] = f[j] => i = j

\* the values a feed can be: two tensors of different shapes and a non-tensor
\* (a sequence or opaque value, which has no shape)
TensorA == [is_tensor |-> TRUE, shape |-> <<1, 3>>]
TensorB == [is_tensor |-> TRUE, shape |-> <<2>>]
NonTensor == [is_tensor |-> FALSE, shape |-> <<>>]
FeedValues == {TensorA, TensorB, NonTensor}

\* every feeds vector over the graph's inputs
AllFeeds == UNION {[1..n -> FeedValues] : n \in 0..Len(FeedSlots)}

\* the node orders of a plan of n steps: n nodes in topological order
NodeOrders(n) ==
    {o \in [1..n -> Nodes] :
        \E pos \in [1..n -> 1..Len(TopoOrder)] :
            /\ \A i \in 1..n : o[i] = TopoOrder[pos[i]]
            /\ \A i \in 1..n : \A j \in 1..n : i < j => pos[i] < pos[j]}

\* the to_be_freed lists: never a slot a feed is bound to; a list may name a
\* slot twice
FreeLists == UNION {[1..l -> Slots \ Range(FeedSlots)] : l \in 0..MaxFree}

\* the ways of cutting a list of length l into n consecutive ranges: c[i] is the
\* number of entries the first i steps free
Cuts(n, l) ==
    {c \in [0..n -> 0..l] :
        /\ c[0] = 0
        /\ c[n] = l
        /\ \A i \in 1..n : c[i - 1] <= c[i]}

\* the plan with node order o whose step i frees entries c[i-1] .. c[i]-1
MakePlan(o, c) ==
    [i \in DOMAIN o |-> [node_index |-> o[i],
                         free_from_index |-> c[i - 1],
                         free_to_index |-> c[i] - 1]]

\* the requested outputs: the output of the plan's last node; with an empty
\* plan, the first graph input
FetchFor(o) == IF Len(o) = 0 THEN <<FeedSlots[1]>> ELSE OutputDefs(o[Len(o)])

\* the frame's value table after construction: the feeds are bound; when the
\* caller passed preallocated fetches, the requested outputs hold a buffer that
\* no kernel has written yet
InitSlots(fs, fetch, preallocated) ==
    [s \in Slots |->
        IF \E i \in 1..Len(fs) : FeedSlots[i] = s THEN "bound"
        ELSE IF preallocated /\ s \in Range(fetch) THEN "allocated"
        ELSE "empty"]

-----------------------------------------------------------------------------
(* The state after the frame has been constructed *)

\* every plan of at most MaxSteps steps with its to_be_freed list: the steps'
\* free ranges are consecutive, disjoint and cover the list
Plans ==
    UNION {UNION {{[execution_plan |-> MakePlan(o, c), to_be_freed |-> f] :
                      c \in Cuts(n, Len(f))} : f \in FreeLists, o \in NodeOrders(n)} :
           n \in 0..MaxSteps}

PlanNodes(plan) == {plan[i].node_index : i \in DOMAIN plan}

\* the node order of a plan
NodeOrder(plan) == [i \in DOMAIN plan |-> plan[i].node_index]

\* the slots node n reads or writes
SlotsOf(n) == Range(InputDefs(n)) \cup Range(ImplicitInputDefs(n)) \cup Range(OutputDefs(n))

\* the step (1-based) whose free range holds entry q (1-based) of to_be_freed
FreeingStep(plan, q) ==
    CHOOSE i \in DOMAIN plan : plan[i].free_from_index <= q - 1 /\ q - 1 <= plan[i].free_to_index

\* the planner's contract: no slot is freed twice, and a slot is freed only if
\* a step of the plan has produced it by then, no later step reads or writes
\* it, and it is not a requested output
Valid(p) ==
    /\ Injective(p.to_be_freed)
    /\ \A q \in DOMAIN p.to_be_freed :
          LET s == p.to_be_freed[q]
              f == FreeingStep(p.execution_plan, q)
          IN  /\ \E i \in 1..f : s \in Range(OutputDefs(p.execution_plan[i].node_index))
              /\ \A j \in (f + 1)..Len(p.execution_plan) :
                    s \notin SlotsOf(p.execution_plan[j].node_index)
              /\ s \notin Range(FetchFor(NodeOrder(p.execution_plan)))

ValidPlans == {p \in Plans : Valid(p)}

\* the plans of at most one step without a release, used where the feeds vary
PlainPlans == {p \in Plans : p.to_be_freed = <<>> /\ Len(p.execution_plan) <= 1}

InitRun ==
    /\ terminate_flag = FALSE
    /\ pc = IF Len(execution_plan) = 0 THEN "outputs" ELSE "poll"
    /\ step = 0
    /\ \E preallocated \in BOOLEAN :
          slots = InitSlots(feeds, fetch_mlvalue_idxs, preallocated)
    /\ fetches = <<>>
    /\ cache_calls = <<>>
    /\ compute_status = StatusOK
    /\ status = StatusOK
    /\ log = <<>>
    /\ run = 1
    /\ session = <<>>

\* a plan that keeps the planner's contract, with any fence requirement on its
\* nodes and any choice of at most MaxFenced fenced slots
InitFences ==
    /\ \E p \in ValidPlans :
          /\ execution_plan = p.execution_plan
          /\ to_be_freed = p.to_be_freed
    /\ node_has_fence \in SUBSET PlanNodes(execution_plan)
    /\ fenced \in {S \in SUBSET Slots : Cardinality(S) <= MaxFenced}
    /\ feeds = <<TensorA, TensorB>>
    /\ has_planner = TRUE
    /\ cache = {}

\* any plan, its release schedule arbitrary, with no fence at all or with a
\* fence on every value and a fence requirement on every node
InitReleases ==
    /\ \E p \in Plans :
          /\ execution_plan = p.execution_plan
          /\ to_be_freed = p.to_be_freed
    /\ node_has_fence = PlanNodes(execution_plan)
    /\ fenced \in {{}, Slots}
    /\ feeds = <<TensorA, TensorB>>
    /\ has_planner = TRUE
    /\ cache = {}

\* any feeds, with or without a pattern planner, over the plans without release
InitFeeds ==
    /\ \E p \in PlainPlans :
          /\ execution_plan = p.execution_plan
          /\ to_be_freed = p.to_be_freed
    /\ node_has_fence = {}
    /\ fenced = {}
    /\ feeds \in AllFeeds
    /\ cache \in {{}, {<<TensorA.shape>>}}
    /\ has_planner \in BOOLEAN

Init ==
    /\ InitFences \/ InitReleases \/ InitFeeds
    /\ fetch_mlvalue_idxs = FetchFor(NodeOrder(execution_plan))
    /\ InitRun

-----------------------------------------------------------------------------
(* What the executor calls, as it appears in log *)

Ev(ev, k, n, role, pos, slot, prov, queue, val) ==
    [ev |-> ev, step |-> k, node |-> n, role |-> role, pos |-> pos, slot |-> slot,
     prov |-> prov, queue |-> queue, val |-> val]

\* a call that concerns no value
Call(ev, k, n, val) == Ev(ev, k, n, "-", 0, 0, "-", 0, val)

\* node_exec_plan of the current iteration, and its node
node_exec_plan == execution_plan[step + 1]
node_index == node_exec_plan.node_index

\* the slot holds a value
HoldsValue(sl, slot) == sl[slot] \in {"allocated", "bound"}

\* OrtValue::Fence() of the value in a slot of table sl: a fence exists once
\* the slot holds a value, if the slot is one whose values carry a fence
Fence(sl, slot) == HoldsValue(sl, slot) /\ slot \in fenced

\* OpKernelContext::InputFence / ImplicitInputFence / OutputFence, index 0-based
InputFence(sl, n, index) == Fence(sl, InputDefs(n)[index + 1])
ImplicitInputFence(sl, n, index) == Fence(sl, ImplicitInputDefs(n)[index + 1])
OutputFence(sl, n, index) == Fence(sl, OutputDefs(n)[index + 1])

\* a choice of provider that never looks at the input's memory type
InputProviderType_NodeOnly(n, input_index) == GetExecutionProviderType(n)

\* lines 96-99: the provider passed for explicit input input_index
InputProviderType(n, input_index) ==
    IF OrtMemTypeCPUInput = InputMemoryType(n, input_index)
    THEN kCpuExecutionProvider
    ELSE GetExecutionProviderType(n)

\* lines 107-110: the provider passed for implicit input input_index
ImplicitInputProviderType(n, input_index) ==
    IF OrtMemTypeCPUInput = InputMemoryType(n, input_index)
    THEN kCpuExecutionProvider
    ELSE GetExecutionProviderType(n)

\* lines 93-102: BeforeUsingAsInput on every explicit input that has a fence
BeforeInputs(sl, n, k) ==
    SelectSeq([p \in 1..InputCount(n) |->
                  Ev("BeforeUsingAsInput", k, n, "input", p - 1, InputDefs(n)[p],
                     InputProviderType(n, p - 1), ExecQueueId(n), TRUE)],
              LAMBDA e : InputFence(sl, n, e.pos))

\* lines 104-113: BeforeUsingAsInput on every implicit input that has a fence
BeforeImplicitInputs(sl, n, k) ==
    SelectSeq([p \in 1..ImplicitInputCount(n) |->
                  Ev("BeforeUsingAsInput", k, n, "implicit", p - 1, ImplicitInputDefs(n)[p],
                     ImplicitInputProviderType(n, p - 1), ExecQueueId(n), TRUE)],
              LAMBDA e : ImplicitInputFence(sl, n, e.pos))

\* lines 115-120: BeforeUsingAsOutput on every output that has a fence
BeforeOutputs(sl, n, k) ==
    SelectSeq([p \in 1..OutputCount(n) |->
                  Ev("BeforeUsingAsOutput", k, n, "output", p - 1, OutputDefs(n)[p],
                     GetExecutionProviderType(n), ExecQueueId(n), TRUE)],
              LAMBDA e : OutputFence(sl, n, e.pos))

\* a before-use phase that does not ask whether the node has a fence requirement
SyncBeforeCompute_Ungated(sl, n, k) ==
    BeforeInputs(sl, n, k) \o BeforeImplicitInputs(sl, n, k) \o BeforeOutputs(sl, n, k)

\* a before-use phase that takes the outputs first
SyncBeforeCompute_OutputsFirst(sl, n, k) ==
    IF n \in node_has_fence
    THEN BeforeOutputs(sl, n, k) \o BeforeInputs(sl, n, k) \o BeforeImplicitInputs(sl, n, k)
    ELSE <<>>

\* lines 92-121: the before-use phase of node n at step k
SyncBeforeCompute(sl, n, k) ==
    IF n \in node_has_fence
    THEN BeforeInputs(sl, n, k) \o BeforeImplicitInputs(sl, n, k) \o BeforeOutputs(sl, n, k)
    ELSE <<>>

\* lines 158-163
AfterInputs(sl, n, k) ==
    SelectSeq([p \in 1..InputCount(n) |->
                  Ev("AfterUsedAsInput", k, n, "input", p - 1, InputDefs(n)[p],
                     "-", ExecQueueId(n), TRUE)],
              LAMBDA e : InputFence(sl, n, e.pos))

\* lines 165-170
AfterImplicitInputs(sl, n, k) ==
    SelectSeq([p \in 1..ImplicitInputCount(n) |->
                  Ev("AfterUsedAsInput", k, n, "implicit", p - 1, ImplicitInputDefs(n)[p],
                     "-", ExecQueueId(n), TRUE)],
              LAMBDA e : ImplicitInputFence(sl, n, e.pos))

\* lines 172-177
AfterOutputs(sl, n, k) ==
    SelectSeq([p \in 1..OutputCount(n) |->
                  Ev("AfterUsedAsOutput", k, n, "output", p - 1, OutputDefs(n)[p],
                     "-", ExecQueueId(n), TRUE)],
              LAMBDA e : OutputFence(sl, n, e.pos))

\* an after-use phase for the outputs alone
SyncAfterCompute_OutputsOnly(sl, n, k) ==
    IF n \in node_has_fence THEN AfterOutputs(sl, n, k) ELSE <<>>

\* lines 157-178: the after-use phase of node n at step k
SyncAfterCompute(sl, n, k) ==
    IF n \in node_has_fence
    THEN AfterInputs(sl, n, k) \o AfterImplicitInputs(sl, n, k) \o AfterOutputs(sl, n, k)
    ELSE <<>>

-----------------------------------------------------------------------------
(* The collaborators *)

\* the statuses a failing kernel Compute may return
KernelFailures ==
    {MakeStatus(SYSTEM, NOT_IMPLEMENTED, <<"not implemented">>),
     MakeStatus(ONNXRUNTIME, INVALID_ARGUMENT, <<"bad shape">>)}

\* a successful Compute binds the node's outputs in the value table
BindOutputs(sl, n) ==
    [s \in Slots |->
        IF s \in Range(OutputDefs(n)) /\ sl[s] \in {"empty", "allocated"} THEN "bound" ELSE sl[s]]

\* ExecutionFrame::ReleaseMLValue: releasing a slot that holds no value fails
ReleaseMLValueStatus(sl, ort_value_idx) ==
    IF HoldsValue(sl, ort_value_idx)
    THEN StatusOK
    ELSE MakeStatus(ONNXRUNTIME, FAIL, <<"ReleaseMLValue: no value in the slot">>)

\* ExecutionFrame::ReleaseMLValue: the table after a release
ReleaseMLValue(sl, ort_value_idx) ==
    IF HoldsValue(sl, ort_value_idx)
    THEN [sl EXCEPT ![ort_value_idx] = "released"]
    ELSE sl

\* ExecutionFrame::GetOutputs: fails when a requested output was never produced
GetOutputsStatus(sl) ==
    IF \A i \in 1..Len(fetch_mlvalue_idxs) : sl[fetch_mlvalue_idxs[i]] = "bound"
    THEN StatusOK
    ELSE MakeStatus(ONNXRUNTIME, FAIL, <<"GetOutputs: a requested output was not produced">>)

\* SessionState::UpdateMemoryPatternGroupCache: an entry is inserted for a
\* signature the cache does not hold yet
UpdateMemoryPatternGroupCache(c, input_shapes) == c \cup {input_shapes}

-----------------------------------------------------------------------------
(* ReleaseNodeMLValues, lines 238-248 *)

\* the loop from index i on: the table, the calls made and the status returned
RECURSIVE ReleaseLoop(_, _, _, _, _, _)
ReleaseLoop(sl, i, free_to_index, k, n, calls) ==
    IF i > free_to_index
    THEN [slots |-> sl, calls |-> calls, status |-> StatusOK]
    ELSE LET ort_value_idx == to_be_freed[i + 1]
             st == ReleaseMLValueStatus(sl, ort_value_idx)
             call == Ev("ReleaseMLValue", k, n, "-", i, ort_value_idx, "-", 0, IsOK(st))
         IN  IF ~IsOK(st)
             THEN [slots |-> sl, calls |-> Append(calls, call), status |-> st]
             ELSE ReleaseLoop(ReleaseMLValue(sl, ort_value_idx), i + 1, free_to_index, k,
                              n, Append(calls, call))

\* a release loop that stops at the first failure but reports success
ReleaseNodeMLValues_Swallow(sl, nep, k) ==
    [ReleaseLoop(sl, nep.free_from_index, nep.free_to_index, k, nep.node_index, <<>>)
        EXCEPT !.status = StatusOK]

ReleaseNodeMLValues(sl, nep, k) ==
    ReleaseLoop(sl, nep.free_from_index, nep.free_to_index, k, nep.node_index, <<>>)

-----------------------------------------------------------------------------
(* Lines 212-222: the loop over the feeds *)

\* a test of the first feed alone
AllTensors_FirstOnly(fs) == Len(fs) = 0 \/ fs[1].is_tensor

RECURSIVE AllTensorsFrom(_, _)
AllTensorsFrom(fs, i) ==
    IF i > Len(fs) THEN TRUE
    ELSE IF ~fs[i].is_tensor THEN FALSE
    ELSE AllTensorsFrom(fs, i + 1)

\* all_tensors after the loop
AllTensors(fs) == AllTensorsFrom(fs, 1)

RECURSIVE InputShapesFrom(_, _)
InputShapesFrom(fs, i) ==
    IF i > Len(fs) THEN <<>>
    ELSE IF ~fs[i].is_tensor THEN <<>>
    ELSE <<fs[i].shape>> \o InputShapesFrom(fs, i + 1)

\* input_shapes after the loop
InputShapes(fs) == InputShapesFrom(fs, 1)

-----------------------------------------------------------------------------
(* SequentialExecutor::Execute, lines 64-236 *)

\* a poll that never sees the flag
TerminateRequested_Ignored(flag) == FALSE

\* line 65: the test of the cancellation flag
TerminateRequested(flag) == flag

\* line 67
TerminateStatus ==
    MakeStatus(ONNXRUNTIME, FAIL, <<"Exiting due to terminate flag being set to true.">>)

\* a failure for a missing kernel that does not say which node lacks one
NoKernelStatus_NoName(n) ==
    MakeStatus(ONNXRUNTIME, FAIL, <<"Got nullptr from GetKernel for node: ">>)

\* lines 78-79
NoKernelStatus(n) ==
    MakeStatus(ONNXRUNTIME, FAIL, <<"Got nullptr from GetKernel for node: ", NodeName(n)>>)

\* a wrapper that keeps the kernel's message but leaves the node's name out
ComputeFailureStatus_NoName(n, cs) ==
    MakeStatus(cs.category, cs.code,
               <<"Non-zero status code returned while running Node: ",
                 " Status Message: ">> \o cs.msg)

\* a wrapper that reports every kernel failure with the executor's generic
\* category and code, as ORT_MAKE_STATUS(ONNXRUNTIME, FAIL, ...) would
ComputeFailureStatus_Generic(n, cs) ==
    MakeStatus(ONNXRUNTIME, FAIL,
               <<"Non-zero status code returned while running Node: ", NodeName(n),
                 " Status Message: ">> \o cs.msg)

\* lines 140-145: the status returned for a failing Compute
ComputeFailureStatus(n, cs) ==
    MakeStatus(cs.category, cs.code,
               <<"Non-zero status code returned while running Node: ", NodeName(n),
                 " Status Message: ">> \o cs.msg)

\* a loop that leaves out the last element of exec_plan_vec
AfterIteration_OneShort(k) == IF k + 2 < Len(execution_plan) THEN "poll" ELSE "outputs"

\* a loop after which the outputs are not gathered
AfterIteration_NoGather(k) == IF k + 1 < Len(execution_plan) THEN "poll" ELSE "planner"

\* line 64: where the loop continues after the iteration of step k
AfterIteration(k) == IF k + 1 < Len(execution_plan) THEN "poll" ELSE "outputs"

\* Execute returns st
Return(st) ==
    /\ pc' = "done"
    /\ status' = st

\* lines 65-68: the cancellation flag is polled at the top of the iteration
Poll ==
    /\ pc = "poll"
    /\ log' = Append(log, Call("Poll", step, node_index, terminate_flag))
    /\ IF TerminateRequested(terminate_flag)
       THEN Return(TerminateStatus)
       ELSE pc' = "kernel" /\ UNCHANGED status
    /\ UNCHANGED <<inputs, history, terminate_flag, step, slots, fetches, cache, cache_calls,
                   compute_status>>

\* lines 70-79: the kernel of the step's node is looked up; it may be missing
GetKernel ==
    /\ pc = "kernel"
    /\ \E found \in BOOLEAN :
          /\ log' = Append(log, Call("GetKernel", step, node_index, found))
          /\ IF found
             THEN pc' = "before" /\ UNCHANGED status
             ELSE Return(NoKernelStatus(node_index))
    /\ UNCHANGED <<inputs, history, terminate_flag, step, slots, fetches, cache, cache_calls,
                   compute_status>>

\* lines 90-121: sync before compute
FenceBefore ==
    /\ pc = "before"
    /\ log' = log \o SyncBeforeCompute(slots, node_index, step)
    /\ pc' = "compute"
    /\ UNCHANGED <<inputs, history, terminate_flag, step, slots, fetches, cache, cache_calls,
                   compute_status, status>>

\* a Compute step that runs the after-use phase before it returns the failure
Compute_AfterOnFailure ==
    /\ pc = "compute"
    /\ \E cs \in {StatusOK} \cup KernelFailures :
          /\ compute_status' = cs
          /\ IF ~IsOK(cs)
             THEN /\ log' = Append(log, Call("Compute", step, node_index, FALSE))
                            \o SyncAfterCompute(slots, node_index, step)
                  /\ Return(ComputeFailureStatus(node_index, cs))
                  /\ UNCHANGED slots
             ELSE /\ log' = Append(log, Call("Compute", step, node_index, TRUE))
                  /\ slots' = BindOutputs(slots, node_index)
                  /\ pc' = "after"
                  /\ UNCHANGED status
    /\ UNCHANGED <<inputs, history, terminate_flag, step, fetches, cache, cache_calls>>

\* lines 138-146: the kernel computes; it returns OK, having bound its outputs,
\* or one of the failures
Compute ==
    /\ pc = "compute"
    /\ \E cs \in {StatusOK} \cup KernelFailures :
          /\ compute_status' = cs
          /\ log' = Append(log, Call("Compute", step, node_index, IsOK(cs)))
          /\ IF ~IsOK(cs)
             THEN Return(ComputeFailureStatus(node_index, cs)) /\ UNCHANGED slots
             ELSE /\ slots' = BindOutputs(slots, node_index)
                  /\ pc' = "after"
                  /\ UNCHANGED status
    /\ UNCHANGED <<inputs, history, terminate_flag, step, fetches, cache, cache_calls>>

\* lines 156-178: sync after compute
FenceAfter ==
    /\ pc = "after"
    /\ log' = log \o SyncAfterCompute(slots, node_index, step)
    /\ pc' = "release"
    /\ UNCHANGED <<inputs, history, terminate_flag, step, slots, fetches, cache, cache_calls,
                   compute_status, status>>

\* lines 202-205: the step's free range is released and the loop goes on
Release ==
    /\ pc = "release"
    /\ LET r == ReleaseNodeMLValues(slots, node_exec_plan, step)
       IN  /\ slots' = r.slots
           /\ log' = log \o r.calls
           /\ IF ~IsOK(r.status)
              THEN Return(r.status) /\ UNCHANGED step
              ELSE /\ pc' = AfterIteration(step)
                   /\ step' = step + 1
                   /\ UNCHANGED status
    /\ UNCHANGED <<inputs, history, terminate_flag, fetches, cache, cache_calls, compute_status>>

\* an output gathering that looks at the cancellation flag first
GetOutputs_Polling ==
    /\ pc = "outputs"
    /\ IF terminate_flag
       THEN Return(TerminateStatus) /\ UNCHANGED <<fetches, log>>
       ELSE LET st == GetOutputsStatus(slots)
            IN  /\ log' = Append(log, Call("GetOutputs", step, 0, IsOK(st)))
                /\ IF ~IsOK(st)
                   THEN Return(st) /\ UNCHANGED fetches
                   ELSE /\ fetches' = fetch_mlvalue_idxs
                        /\ pc' = "planner"
                        /\ UNCHANGED status
    /\ UNCHANGED <<inputs, history, terminate_flag, step, slots, cache, cache_calls,
                   compute_status>>

\* lines 207-210: the requested outputs are gathered into fetches
GetOutputs ==
    /\ pc = "outputs"
    /\ LET st == GetOutputsStatus(slots)
       IN  /\ log' = Append(log, Call("GetOutputs", step, 0, IsOK(st)))
           /\ IF ~IsOK(st)
              THEN Return(st) /\ UNCHANGED fetches
              ELSE /\ fetches' = fetch_mlvalue_idxs
                   /\ pc' = "planner"
                   /\ UNCHANGED status
    /\ UNCHANGED <<inputs, history, terminate_flag, step, slots, cache, cache_calls, compute_status>>

\* a test that leaves out frame.HasMemoryPatternPlanner()
GeneratesPatterns_NoPlannerTest(planner, fs) == AllTensors(fs)

\* lines 212 and 224: the two conditions under which a pattern is generated
GeneratesPatterns(planner, fs) == planner /\ AllTensors(fs)

\* lines 212-224 and 231-235: whether a memory pattern is to be generated
CheckPlanner ==
    /\ pc = "planner"
    /\ IF GeneratesPatterns(has_planner, feeds)
       THEN pc' = "patterns" /\ UNCHANGED status
       ELSE Return(StatusOK)
    /\ UNCHANGED <<inputs, history, terminate_flag, step, slots, fetches, cache, cache_calls,
                   compute_status, log>>

\* lines 225-226: frame.GeneratePatterns, which may fail
GeneratePatterns ==
    /\ pc = "patterns"
    /\ \E ok \in BOOLEAN :
          /\ log' = Append(log, Call("GeneratePatterns", step, 0, ok))
          /\ IF ok
             THEN pc' = "update" /\ UNCHANGED status
             ELSE Return(MakeStatus(ONNXRUNTIME, FAIL, <<"GeneratePatterns failed">>))
    /\ UNCHANGED <<inputs, history, terminate_flag, step, slots, fetches, cache, cache_calls,
                   compute_status>>

\* lines 227-235: the pattern is offered to the session's cache, which may fail
UpdateCache ==
    /\ pc = "update"
    /\ cache_calls' = Append(cache_calls, InputShapes(feeds))
    /\ \E ok \in BOOLEAN :
          /\ log' = Append(log, Call("UpdateMemoryPatternGroupCache", step, 0, ok))
          /\ IF ok
             THEN /\ cache' = UpdateMemoryPatternGroupCache(cache, InputShapes(feeds))
                  /\ Return(StatusOK)
             ELSE /\ UNCHANGED cache
                  /\ Return(MakeStatus(ONNXRUNTIME, FAIL,
                                       <<"UpdateMemoryPatternGroupCache failed">>))
    /\ UNCHANGED <<inputs, history, terminate_flag, step, slots, fetches, compute_status>>

\* another thread sets the cancellation flag while Execute runs
SetTerminateFlag ==
    /\ pc # "done"
    /\ ~terminate_flag
    /\ terminate_flag' = TRUE
    /\ UNCHANGED <<inputs, history, pc, step, slots, fetches, cache, cache_calls, compute_status,
                   status, log>>

Next ==
    \/ Poll
    \/ GetKernel
    \/ FenceBefore
    \/ Compute
    \/ FenceAfter
    \/ Release
    \/ GetOutputs
    \/ CheckPlanner
    \/ GeneratePatterns
    \/ UpdateCache
    \/ SetTerminateFlag

Spec == Init /\ [][Next]_vars

-----------------------------------------------------------------------------
(* Runs made one after the other on one session *)

\* the feeds of the session's runs
SessionFeeds == {<<TensorA>>, <<TensorB>>, <<TensorA, TensorB>>, <<NonTensor>>}

\* a new session (empty cache) and its first run
InitSession ==
    /\ \E p \in PlainPlans :
          /\ execution_plan = p.execution_plan
          /\ to_be_freed = p.to_be_freed
    /\ node_has_fence = {}
    /\ fenced = {}
    /\ feeds \in SessionFeeds
    /\ cache = {}
    /\ has_planner \in BOOLEAN
    /\ fetch_mlvalue_idxs = FetchFor(NodeOrder(execution_plan))
    /\ InitRun

\* Execute has returned and is called again on the same session: a frame is
\* constructed for the new feeds (line 54) over the cache the earlier runs
\* left; whether that frame has a planner is the frame's own affair
NewRun ==
    /\ pc = "done"
    /\ run < MaxRuns
    /\ run' = run + 1
    /\ session' = Append(session,
                         [key |-> InputShapes(feeds),
                          computed |-> \E i \in 1..Len(log) : log[i].ev = "GeneratePatterns",
                          ok |-> IsOK(status)])
    /\ feeds' \in SessionFeeds
    /\ has_planner' \in BOOLEAN
    /\ terminate_flag' = FALSE
    /\ pc' = IF Len(execution_plan) = 0 THEN "outputs" ELSE "poll"
    /\ step' = 0
    /\ slots' = InitSlots(feeds', fetch_mlvalue_idxs, FALSE)
    /\ fetches' = <<>>
    /\ cache_calls' = <<>>
    /\ compute_status' = StatusOK
    /\ status' = StatusOK
    /\ log' = <<>>
    /\ UNCHANGED <<execution_plan, to_be_freed, node_has_fence, fenced,
                   fetch_mlvalue_idxs, cache>>

NextSession ==
    \/ Next
    \/ NewRun

SpecSession == InitSession /\ [][NextSession]_vars

-----------------------------------------------------------------------------
(* Reading the log *)

\* the number of plan steps, N
N == Len(execution_plan)

LogIdx == 1..Len(log)

\* the positions in log of the calls named ev made in step k
CallsOf(ev, k) == {i \in LogIdx : log[i].ev = ev /\ log[i].step = k}

IsBefore(e) == e.ev \in {"BeforeUsingAsInput", "BeforeUsingAsOutput"}
IsAfter(e) == e.ev \in {"AfterUsedAsInput", "AfterUsedAsOutput"}

\* a call that belongs to a plan step: everything but the calls after the loop
IsStepCall(e) ==
    e.ev \in {"Poll", "GetKernel", "Compute", "ReleaseMLValue"} \/ IsBefore(e) \/ IsAfter(e)

\* a call by which a step does work: everything of a step but the poll
IsStepWork(e) == IsStepCall(e) /\ e.ev # "Poll"

\* the Compute calls, in the order they were made
ComputeCalls == SelectSeq(log, LAMBDA e : e.ev = "Compute")

\* the loop has been left, by running off the plan or by a return
LoopOver == pc \in {"outputs", "planner", "patterns", "update", "done"}

\* Execute has returned
Returned == pc = "done"

\* step k computed exactly once, its Compute returning OK
ComputedOnce(k) ==
    /\ Cardinality(CallsOf("Compute", k)) = 1
    /\ \A i \in CallsOf("Compute", k) : log[i].val

\* step k released exactly its free range, in order, every release succeeding
ReleasedRange(k) ==
    LET nep == execution_plan[k + 1]
        rel == SelectSeq(log, LAMBDA e : e.ev = "ReleaseMLValue" /\ e.step = k)
    IN  /\ Len(rel) = nep.free_to_index - nep.free_from_index + 1
        /\ \A j \in 1..Len(rel) :
              /\ rel[j].val
              /\ rel[j].pos = nep.free_from_index + j - 1
              /\ rel[j].slot = to_be_freed[nep.free_from_index + j]

-----------------------------------------------------------------------------
(* C1 *)

\* the flag was never set and no lookup, Compute or release failed
NoFailureInjected ==
    /\ ~terminate_flag
    /\ \A i \in LogIdx : log[i].ev \in {"GetKernel", "Compute", "ReleaseMLValue"} => log[i].val

\* C1: the Compute calls made so far are those of steps 0, 1, 2, ... in plan
\* order, the i-th being the kernel of the node of plan step i, none repeated
\* or skipped; and once the loop is over in a run in which the flag was never
\* set and no lookup, Compute or release failed, there are exactly N of them.
C1_PlanOrder ==
    /\ \A i \in 1..Len(ComputeCalls) :
          /\ i <= N
          /\ ComputeCalls[i].step = i - 1
          /\ ComputeCalls[i].node = execution_plan[i].node_index
    /\ (LoopOver /\ NoFailureInjected) => Len(ComputeCalls) = N

\* a plan of two steps or more has run to the end without a failure
C1_Witness ==
    /\ Returned /\ IsOK(status) /\ NoFailureInjected
    /\ N >= 2
    /\ Len(ComputeCalls) = N

-----------------------------------------------------------------------------
(* C2 *)

\* the positions of the Compute calls that failed
FailedComputes == {i \in LogIdx : log[i].ev = "Compute" /\ ~log[i].val}

\* C2: when the Compute of step k has failed, Execute has returned, steps
\* 0..k-1 and step k have each been computed exactly once, nothing was called
\* after the failing Compute, no call of a step beyond k was ever made, and the
\* message of the returned status contains the name of step k's node.
C2_Abort ==
    \A i \in FailedComputes :
        LET k == log[i].step
        IN  /\ Returned
            /\ i = Len(log)
            /\ \A j \in 0..(k - 1) : ComputedOnce(j)
            /\ Cardinality(CallsOf("Compute", k)) = 1
            /\ \A j \in LogIdx : log[j].step <= k
            /\ ~IsOK(status)
            /\ Contains(status.msg, NodeName(execution_plan[k + 1].node_index))

\* the Compute of a step that is neither the first nor the last has failed
C2_Witness ==
    \E i \in FailedComputes : log[i].step >= 1 /\ log[i].step + 1 < N

-----------------------------------------------------------------------------
(* C3 *)

\* every piece of message m occurs in message w
ContainsAll(w, m) == \A j \in 1..Len(m) : Contains(w, m[j])

\* C3: when a Compute has failed with status (c, e, m), the status Execute
\* returns has category c and code e, and its message contains the node's name
\* and the message m.
C3_CategoryAndCodeKept ==
    \A i \in FailedComputes :
        /\ Returned
        /\ ~IsOK(compute_status)
        /\ status.category = compute_status.category
        /\ status.code = compute_status.code
        /\ Contains(status.msg, NodeName(log[i].node))
        /\ ContainsAll(status.msg, compute_status.msg)
        /\ Len(compute_status.msg) > 0

\* a kernel failed with a category and a code that are not the executor's own
C3_Witness ==
    /\ FailedComputes # {}
    /\ compute_status.category = SYSTEM
    /\ compute_status.code = NOT_IMPLEMENTED
    /\ Returned

-----------------------------------------------------------------------------
(* C4 *)

\* the before-use transitions of step k, and its after-use transitions
BeforesOf(k) == {i \in LogIdx : IsBefore(log[i]) /\ log[i].step = k}
AftersOf(k) == {i \in LogIdx : IsAfter(log[i]) /\ log[i].step = k}

\* the after-use transition at j answers the before-use transition at i
Answers(j, i) ==
    /\ IsAfter(log[j])
    /\ log[j].step = log[i].step
    /\ log[j].role = log[i].role
    /\ log[j].pos = log[i].pos
    /\ log[j].slot = log[i].slot
    /\ log[j].queue = log[i].queue
    /\ j > i

\* step k went through all of its phases
StepCompleted(k) ==
    /\ Cardinality(CallsOf("GetKernel", k)) = 1
    /\ ComputedOnce(k)
    /\ \A i \in BeforesOf(k) : \E j \in AftersOf(k) : Answers(j, i)
    /\ ReleasedRange(k)

\* the polls that found the flag set
PollsSet == {i \in LogIdx : log[i].ev = "Poll" /\ log[i].val}

\* C4: when the poll of step i finds the flag set, that poll is the last call
\* Execute makes: no step j >= i does any work, Execute has returned a failure,
\* and every step before i has gone through all its phases.
C4_Cancellation ==
    \A p \in PollsSet :
        LET i == log[p].step
        IN  /\ Returned
            /\ ~IsOK(status)
            /\ p = Len(log)
            /\ \A j \in LogIdx : IsStepWork(log[j]) => log[j].step < i
            /\ \A j \in 0..(i - 1) : StepCompleted(j)

\* the flag was found set at the second step, after a first step with fence
\* transitions and a release
C4_Witness ==
    \E p \in PollsSet :
        /\ log[p].step = 1
        /\ BeforesOf(0) # {}
        /\ CallsOf("ReleaseMLValue", 0) # {}

-----------------------------------------------------------------------------
(* C5 *)

\* the output sinks have been populated
Populated == fetches # <<>>

\* the last call Execute made
LastCall == log[Len(log)]

\* Execute returned the failure of pattern generation or of the cache update
PatternFailure ==
    /\ Len(log) > 0
    /\ LastCall.ev \in {"GeneratePatterns", "UpdateMemoryPatternGroupCache"}
    /\ ~LastCall.val

\* C5 as stated: whenever Execute returns a non-OK status, whatever the
\* failure, the output sinks have not been populated.
C5_AllOrNothing_Original == (Returned /\ ~IsOK(status)) => ~Populated

\* C5 as amended: the sinks are populated only after a successful GetOutputs;
\* when Execute returns a non-OK status for cancellation, an unresolved kernel,
\* a Compute failure, a release failure or a missing output, the sinks have not
\* been populated; when it returns the failure of pattern generation or of the
\* cache update, the sinks have been populated.
C5_AllOrNothing ==
    /\ Populated => \E i \in LogIdx : log[i].ev = "GetOutputs" /\ log[i].val
    /\ (Returned /\ ~IsOK(status)) => (Populated <=> PatternFailure)

\* a release failed in the second step or later, and Execute returned that
\* failure with the sinks untouched
C5_Witness ==
    /\ Returned /\ ~IsOK(status)
    /\ LastCall.ev = "ReleaseMLValue"
    /\ LastCall.step >= 1
    /\ ~Populated

-----------------------------------------------------------------------------
(* C6 *)

\* the positions of the GetOutputs call
GatherCalls == {i \in LogIdx : log[i].ev = "GetOutputs"}

PatternCalls ==
    {i \in LogIdx : log[i].ev \in {"GeneratePatterns", "UpdateMemoryPatternGroupCache"}}

\* C6: when Execute returns OK, every plan step was computed exactly once with
\* success and released its whole free range, and GetOutputs ran once, after
\* every call of every step, and succeeded, every requested output having been
\* produced; and when GetOutputs fails, Execute returns that failure and
\* neither generates a pattern nor calls the cache.
C6_SuccessGuarantee ==
    /\ (Returned /\ IsOK(status)) =>
          /\ \A k \in 0..(N - 1) : ComputedOnce(k) /\ ReleasedRange(k)
          /\ Cardinality(GatherCalls) = 1
          /\ \A g \in GatherCalls :
                /\ log[g].val
                /\ \A j \in LogIdx : IsStepCall(log[j]) => j < g
          /\ \A i \in 1..Len(fetch_mlvalue_idxs) : slots[fetch_mlvalue_idxs[i]] = "bound"
          /\ fetches = fetch_mlvalue_idxs
    /\ \A g \in GatherCalls :
          ~log[g].val =>
              /\ Returned
              /\ status = GetOutputsStatus(slots)
              /\ ~IsOK(status)
              /\ g = Len(log)
              /\ PatternCalls = {}
              /\ cache_calls = <<>>

\* a run of three steps with a release of two slots in one step returned OK
C6_Witness ==
    /\ Returned /\ IsOK(status)
    /\ N = 3
    /\ \E k \in 0..(N - 1) : Cardinality(CallsOf("ReleaseMLValue", k)) = 2

-----------------------------------------------------------------------------
(* C7 *)

\* the after-use transitions that answer the before-use transition at i
AnswersTo(i) == {j \in LogIdx : Answers(j, i)}

\* a release of the value of the transition at i was called between i and j
ReleasedBetween(i, j) ==
    \E r \in LogIdx :
        /\ log[r].ev = "ReleaseMLValue"
        /\ log[r].slot = log[i].slot
        /\ i < r /\ r < j

\* the before-use transition at i has exactly one answer, and the value is
\* not released before it
Paired(i) ==
    /\ Cardinality(AnswersTo(i)) = 1
    /\ \A j \in AnswersTo(i) : ~ReleasedBetween(i, j)

\* C7 as stated: in every run, also a failed one, once Execute has returned
\* every before-use transition has exactly one after-use transition on the
\* same value with the same queue id, issued before the value is released.
C7_FencePairing_Original ==
    Returned => \A i \in LogIdx : IsBefore(log[i]) => Paired(i)

\* C7 as amended: once Execute has returned, every before-use transition of a
\* step whose Compute returned OK has exactly one after-use transition on the
\* same value with the same queue id, issued after that Compute and before the
\* value is released; the before-use transitions of a step whose Compute
\* failed have none.
C7_FencePairing ==
    Returned =>
        \A i \in LogIdx :
            IsBefore(log[i]) =>
                IF \E c \in CallsOf("Compute", log[i].step) : log[c].val
                THEN /\ Paired(i)
                     /\ \A j \in AnswersTo(i) :
                           \A c \in CallsOf("Compute", log[i].step) : c < j
                ELSE /\ AnswersTo(i) = {}
                     /\ AftersOf(log[i].step) = {}

\* a value was fenced before and after a Compute and released later in a run
\* in which the Compute of a later step failed after its before-use phase
C7_Witness ==
    /\ Returned
    /\ \E i \in LogIdx :
          /\ IsBefore(log[i])
          /\ AnswersTo(i) # {}
          /\ \E r \in LogIdx : log[r].ev = "ReleaseMLValue" /\ log[r].slot = log[i].slot /\ r > i
    /\ \E i \in LogIdx : IsBefore(log[i]) /\ AnswersTo(i) = {}

-----------------------------------------------------------------------------
(* C8 *)

\* the transitions among the first j calls that are on the value and the
\* queue of the call at j
BeforesUpTo(j) ==
    {i \in 1..j : IsBefore(log[i]) /\ log[i].slot = log[j].slot /\ log[i].queue = log[j].queue}
AftersUpTo(j) ==
    {i \in 1..j : IsAfter(log[i]) /\ log[i].slot = log[j].slot /\ log[i].queue = log[j].queue}

\* C8: at every point of a run, the after-use transitions issued for a value
\* and a queue are no more than the before-use transitions issued earlier for
\* that value and queue.
C8_NoAfterWithoutBefore ==
    \A j \in LogIdx :
        IsAfter(log[j]) => Cardinality(AftersUpTo(j)) <= Cardinality(BeforesUpTo(j))

-----------------------------------------------------------------------------
(* C9 *)

\* the place of a call within its step
Phase(e) ==
    CASE e.ev = "Poll" -> 0
      [] e.ev = "GetKernel" -> 1
      [] e.ev = "BeforeUsingAsInput" /\ e.role = "input" -> 2
      [] e.ev = "BeforeUsingAsInput" /\ e.role = "implicit" -> 3
      [] e.ev = "BeforeUsingAsOutput" -> 4
      [] e.ev = "Compute" -> 5
      [] IsAfter(e) -> 6
      [] e.ev = "ReleaseMLValue" -> 7
      [] OTHER -> 8

\* C9: the calls of a step are made phase after phase - the before-use
\* transitions of the inputs, of the implicit inputs and of the outputs, then
\* the one Compute, then the after-use transitions, then the releases - and
\* every call of a step is made after every call of the steps before it.
C9_PhaseOrder ==
    /\ \A i, j \in LogIdx :
          (i < j /\ IsStepCall(log[i]) /\ IsStepCall(log[j])) =>
              \/ log[i].step < log[j].step
              \/ log[i].step = log[j].step /\ Phase(log[i]) <= Phase(log[j])
    /\ \A k \in 0..(N - 1) : Cardinality(CallsOf("Compute", k)) <= 1

\* after a step that released a value, the next step issued before-use
\* transitions on an input and on an output, computed, issued after-use
\* transitions and released a value
C9_Witness ==
    \E k \in 1..(N - 1) :
        /\ CallsOf("ReleaseMLValue", k - 1) # {}
        /\ \E i \in BeforesOf(k) : log[i].role \in {"input", "implicit"}
        /\ \E i \in BeforesOf(k) : log[i].role = "output"
        /\ AftersOf(k) # {}
        /\ CallsOf("ReleaseMLValue", k) # {}

-----------------------------------------------------------------------------
(* C10 *)

\* every feed is a tensor
EveryFeedIsTensor == \A i \in 1..Len(feeds) : feeds[i].is_tensor

\* the shapes of the feeds, in feed order
FeedShapes == [i \in 1..Len(feeds) |-> feeds[i].shape]

\* the steps and the output gathering all succeeded
GatherSucceeded == \E g \in GatherCalls : log[g].val

\* Execute has returned after a successful output gathering
ReturnedAfterGather == Returned /\ GatherSucceeded

\* C10 as stated: after a run whose steps and output gathering succeeded, a
\* pattern is generated and offered to the cache, keyed by the feeds' shapes, if
\* every feed is a tensor; if some feed is not a tensor, no pattern is generated
\* and the cache is not called.
C10_Eligibility_Original ==
    ReturnedAfterGather =>
        IF EveryFeedIsTensor
        THEN /\ \E i \in LogIdx : log[i].ev = "GeneratePatterns"
             /\ cache_calls = <<FeedShapes>>
        ELSE PatternCalls = {} /\ cache_calls = <<>>

\* C10 as amended: after a run whose steps and output gathering succeeded, if
\* the frame has a memory pattern planner and every feed is a tensor, pattern
\* generation is called once and, when it succeeds, the cache is called once,
\* with the feeds' shapes in feed order as the key (when it fails, the cache
\* is not called); if the frame has no planner or some feed, at whatever
\* position, is not a tensor, no pattern is generated and the cache is not
\* called.
C10_Eligibility ==
    ReturnedAfterGather =>
        IF has_planner /\ EveryFeedIsTensor
        THEN /\ Cardinality({i \in LogIdx : log[i].ev = "GeneratePatterns"}) = 1
             /\ \A i \in LogIdx :
                   log[i].ev = "GeneratePatterns" =>
                       IF log[i].val THEN cache_calls = <<FeedShapes>> ELSE cache_calls = <<>>
        ELSE PatternCalls = {} /\ cache_calls = <<>>

\* a run with a planner returned after its gathering succeeded, its second
\* feed being the one that is not a tensor
C10_Witness ==
    /\ ReturnedAfterGather
    /\ has_planner
    /\ Len(feeds) = 2
    /\ feeds[1].is_tensor /\ ~feeds[2].is_tensor
    /\ N = 1

-----------------------------------------------------------------------------
(* C11 *)

\* the run under way has had a pattern generated
GeneratedNow == \E i \in LogIdx : log[i].ev = "GeneratePatterns"

\* the run under way has had its pattern accepted by the cache
InsertedNow == \E i \in LogIdx : log[i].ev = "UpdateMemoryPatternGroupCache" /\ log[i].val

\* the session's earlier runs that generated a pattern and returned OK
InsertingRuns == {r \in 1..Len(session) : session[r].computed /\ session[r].ok}

-----------------------------------------------------------------------------
(* C12 *)

\* a step was computed although a slot its node reads or writes had been
\* released by an earlier step
AccessAfterRelease ==
    \E i \in LogIdx : \E c \in LogIdx :
        /\ i < c
        /\ log[i].ev = "ReleaseMLValue"
        /\ log[i].val
        /\ log[c].ev = "Compute"
        /\ log[c].step > log[i].step
        /\ log[i].slot \in SlotsOf(log[c].node)

\* the release of one slot was asked for twice
DoubleRelease ==
    \E i \in LogIdx : \E j \in LogIdx :
        /\ i < j
        /\ log[i].ev = "ReleaseMLValue"
        /\ log[j].ev = "ReleaseMLValue"
        /\ log[i].slot = log[j].slot

\* C12: a run in which a step accesses a slot that an earlier step released, or
\* in which a slot is released twice, does not return OK: whenever Execute
\* returns OK, no step was computed over a released slot and no slot was
\* released a second time.
C12_NoAccessAfterRelease ==
    Returned /\ IsOK(status) => ~AccessAfterRelease /\ ~DoubleRelease

-----------------------------------------------------------------------------
(* C13 *)

\* the positions of the kernel lookups that found no kernel
FailedLookups == {i \in LogIdx : log[i].ev = "GetKernel" /\ ~log[i].val}

\* C13: when the kernel lookup of step k has found no kernel, Execute has
\* returned a failure whose message names step k's node; the lookup was the
\* last call of the run and was made once; step k issued no fence transition,
\* no Compute and no release; no call of a later step, no output gathering and
\* no cache call was made; and each of the steps 0..k-1 looked its kernel up
\* once, computed once with success, completed its fence transitions and
\* released its whole free range.
C13_UnresolvedKernel ==
    \A i \in FailedLookups :
        LET k == log[i].step
        IN  /\ Returned
            /\ ~IsOK(status)
            /\ Contains(status.msg, NodeName(execution_plan[k + 1].node_index))
            /\ i = Len(log)
            /\ Cardinality(CallsOf("GetKernel", k)) = 1
            /\ \A j \in LogIdx : log[j].step = k => log[j].ev \in {"Poll", "GetKernel"}
            /\ \A j \in LogIdx : log[j].step <= k
            /\ GatherCalls = {} /\ PatternCalls = {}
            /\ fetches = <<>> /\ cache_calls = <<>>
            /\ \A j \in 0..(k - 1) : StepCompleted(j)
            /\ \A j \in LogIdx :
                  log[j].ev = "ReleaseMLValue" /\ log[j].val => slots[log[j].slot] = "released"

\* the lookup of a step that is not the first found no kernel; the step's node
\* has a fence requirement and a fenced input, its free range is not empty, and
\* the step before it released a slot
C13_Witness ==
    \E i \in FailedLookups :
        LET k == log[i].step
            nep == execution_plan[k + 1]
        IN  /\ k >= 1
            /\ nep.node_index \in node_has_fence
            /\ \E p \in 1..InputCount(nep.node_index) :
                  InputFence(slots, nep.node_index, p - 1)
            /\ nep.free_from_index <= nep.free_to_index
            /\ CallsOf("ReleaseMLValue", k - 1) # {}

-----------------------------------------------------------------------------
(* C14 *)

\* the node of the step in which call e was made
StepNode(e) == execution_plan[e.step + 1].node_index

\* C14: every BeforeUsingAsInput issued for an explicit input position p of a
\* step's node is passed the CPU provider when the kernel declares
\* OrtMemTypeCPUInput for input p, and the node's own provider otherwise; every
\* BeforeUsingAsOutput is passed the node's own provider; and every before-use
\* and after-use transition of the step is passed the kernel's ExecQueueId.
C14_ExplicitProvider ==
    \A i \in LogIdx :
        LET e == log[i]
            n == StepNode(e)
        IN  /\ e.ev = "BeforeUsingAsInput" /\ e.role = "input" =>
                  /\ e.node = n
                  /\ e.slot = InputDefs(n)[e.pos + 1]
                  /\ InputMemoryType(n, e.pos) = OrtMemTypeCPUInput =>
                        e.prov = kCpuExecutionProvider
                  /\ InputMemoryType(n, e.pos) # OrtMemTypeCPUInput =>
                        e.prov = GetExecutionProviderType(n)
            /\ e.ev = "BeforeUsingAsOutput" =>
                  /\ e.node = n
                  /\ e.slot = OutputDefs(n)[e.pos + 1]
                  /\ e.prov = GetExecutionProviderType(n)
            /\ IsBefore(e) \/ IsAfter(e) => e.queue = ExecQueueId(n)

\* one step has issued a before-use with the CPU provider for an input declared
\* CPU-input, a before-use with the node's provider for another input, a
\* before-use for an output, and an after-use
C14_Witness ==
    \E i \in LogIdx : \E j \in LogIdx : \E o \in LogIdx : \E a \in LogIdx :
        /\ log[i].ev = "BeforeUsingAsInput" /\ log[i].role = "input"
        /\ log[i].prov = kCpuExecutionProvider
        /\ log[j].ev = "BeforeUsingAsInput" /\ log[j].role = "input"
        /\ log[j].step = log[i].step
        /\ log[j].prov = GetExecutionProviderType(StepNode(log[j]))
        /\ log[j].prov # kCpuExecutionProvider
        /\ log[o].ev = "BeforeUsingAsOutput" /\ log[o].step = log[i].step
        /\ IsAfter(log[a]) /\ log[a].step = log[i].step

-----------------------------------------------------------------------------
(* C15 *)

\* C15: every BeforeUsingAsInput issued for implicit input j of a step's node is
\* passed the CPU provider when the memory type declared for that implicit
\* input itself is OrtMemTypeCPUInput, and the node's own provider otherwise,
\* whatever the memory type of explicit input j is.
C15_ImplicitProvider ==
    \A i \in LogIdx :
        LET e == log[i]
            n == StepNode(e)
        IN  e.ev = "BeforeUsingAsInput" /\ e.role = "implicit" =>
                /\ ImplicitInputMemoryType(n, e.pos) = OrtMemTypeCPUInput =>
                      e.prov = kCpuExecutionProvider
                /\ ImplicitInputMemoryType(n, e.pos) # OrtMemTypeCPUInput =>
                      e.prov = GetExecutionProviderType(n)

-----------------------------------------------------------------------------
(* C16 *)

\* the successful releases made so far
ReleasesDone == {i \in LogIdx : log[i].ev = "ReleaseMLValue" /\ log[i].val}

\* C16: when the Compute of step k has failed, Execute has returned with the
\* failing Compute as its last call: step k has no after-use transition and no
\* release, the outputs were not gathered, no pattern was generated and the
\* cache was not called; every step before k has released its whole free range
\* and every slot released so far is still released.
C16_FailingCompute ==
    \A i \in FailedComputes :
        LET k == log[i].step
        IN  /\ Returned
            /\ ~IsOK(status)
            /\ LastCall = log[i]
            /\ AftersOf(k) = {}
            /\ CallsOf("ReleaseMLValue", k) = {}
            /\ GatherCalls = {}
            /\ fetches = <<>>
            /\ PatternCalls = {}
            /\ cache_calls = <<>>
            /\ \A j \in 0..(k - 1) : ReleasedRange(j)
            /\ \A r \in ReleasesDone : slots[log[r].slot] = "released"

\* the Compute of a step that is not the first has failed; the step had issued
\* a before-use transition, its free range is not empty, and the step before it
\* released a slot
C16_Witness ==
    \E i \in FailedComputes :
        LET k == log[i].step
            nep == execution_plan[k + 1]
        IN  /\ k >= 1
            /\ BeforesOf(k) # {}
            /\ nep.free_from_index <= nep.free_to_index
            /\ ReleasesDone # {}
            /\ \A r \in ReleasesDone : log[r].step < k

-----------------------------------------------------------------------------
(* C17 *)

\* the release calls of step k, in the order they were made
ReleasesOf(k) == SelectSeq(log, LAMBDA e : e.ev = "ReleaseMLValue" /\ e.step = k)

\* the positions of the releases that failed
FailedReleases == {i \in LogIdx : log[i].ev = "ReleaseMLValue" /\ ~log[i].val}

\* the releases of step k are those of to_be_freed[free_from_index ..], one per
\* entry in increasing order, none beyond free_to_index, made after the step's
\* successful Compute and its after-use transitions, and only the last of them
\* can have failed
InSchedule(k) ==
    LET nep == execution_plan[k + 1]
        rel == ReleasesOf(k)
    IN  /\ Len(rel) <= nep.free_to_index - nep.free_from_index + 1
        /\ \A j \in 1..Len(rel) :
              /\ rel[j].pos = nep.free_from_index + j - 1
              /\ rel[j].slot = to_be_freed[nep.free_from_index + j]
              /\ j < Len(rel) => rel[j].val
        /\ \A i \in CallsOf("ReleaseMLValue", k) :
              /\ ComputedOnce(k)
              /\ \A c \in CallsOf("Compute", k) : c < i
              /\ \A a \in AftersOf(k) : a < i

\* C17 without its last clause: every step's releases follow the schedule, a
\* step that the loop has left behind has released its whole range, and a
\* failed release is the last call of a run that returned a failure.
ReleaseScheduleKept ==
    /\ \A k \in 0..(N - 1) : InSchedule(k)
    /\ \A k \in 0..(step - 1) : ReleasedRange(k)
    /\ \A i \in FailedReleases : Returned /\ ~IsOK(status) /\ i = Len(log)

\* C17: every step releases exactly the entries free_from_index ..
\* free_to_index of to_be_freed, in increasing order, after its Compute and
\* after-use phase; when a release fails, no further entry is released, no
\* later step starts, and the returned failure names the node of the step whose
\* release failed, as the failure of a kernel does.
C17_ReleaseSchedule ==
    /\ ReleaseScheduleKept
    /\ \A i \in FailedReleases : Contains(status.msg, NodeName(StepNode(log[i])))

-----------------------------------------------------------------------------
(* C18 *)

\* the occurrences of values in the lists of node n: <<role, position, slot>>
Occurrences(n) ==
    {<<"input", p - 1, InputDefs(n)[p]>> : p \in 1..InputCount(n)}
        \cup {<<"implicit", p - 1, ImplicitInputDefs(n)[p]>> : p \in 1..ImplicitInputCount(n)}
        \cup {<<"output", p - 1, OutputDefs(n)[p]>> : p \in 1..OutputCount(n)}

\* the number of before-use (after-use) transitions step k issued for occurrence o
BeforeCount(k, o) ==
    Cardinality({i \in BeforesOf(k) : <<log[i].role, log[i].pos, log[i].slot>> = o})
AfterCount(k, o) ==
    Cardinality({i \in AftersOf(k) : <<log[i].role, log[i].pos, log[i].slot>> = o})

\* what the phase of a step on node n owes occurrence o when the slots are sl
Owed(sl, n, o) == IF n \in node_has_fence /\ Fence(sl, o[3]) THEN 1 ELSE 0

\* C18: fence transitions are issued only in steps whose node has the fence
\* requirement, and only for occurrences of values that carry a fence; right
\* after the before-use phase of a step, each occurrence of a value in the
\* node's lists has received one before-use if the node is flagged and the value
\* has a fence, and none otherwise; right after the after-use phase the same is
\* true of the after-uses, every occurrence that received a before-use has
\* received one after-use, and for inputs and implicit inputs the two counts
\* are equal.
C18_FenceGating ==
    /\ \A i \in LogIdx :
          IsBefore(log[i]) \/ IsAfter(log[i]) =>
              /\ StepNode(log[i]) \in node_has_fence
              /\ log[i].slot \in fenced
              /\ <<log[i].role, log[i].pos, log[i].slot>> \in Occurrences(StepNode(log[i]))
    /\ \A k \in 0..(N - 1) : \A o \in Occurrences(execution_plan[k + 1].node_index) :
          BeforeCount(k, o) <= 1 /\ AfterCount(k, o) <= 1
    /\ pc = "compute" =>
          \A o \in Occurrences(node_index) :
              BeforeCount(step, o) = Owed(slots, node_index, o)
    /\ pc = "release" =>
          \A o \in Occurrences(node_index) :
              /\ AfterCount(step, o) = Owed(slots, node_index, o)
              /\ BeforeCount(step, o) = 1 => AfterCount(step, o) = 1
              /\ o[1] # "output" => BeforeCount(step, o) = AfterCount(step, o)

\* a flagged step has finished its after-use phase: it issued two before-uses
\* and two after-uses for one slot bound to two input positions and none for an
\* implicit input without a fence; an earlier step of the run, whose node is
\* not flagged, computed without any transition although one of its values
\* carries a fence
C18_Witness ==
    /\ pc = "release"
    /\ node_index \in node_has_fence
    /\ \E o1 \in Occurrences(node_index) : \E o2 \in Occurrences(node_index) :
          /\ o1 # o2
          /\ o1[3] = o2[3]
          /\ BeforeCount(step, o1) = 1 /\ BeforeCount(step, o2) = 1
          /\ AfterCount(step, o1) = 1 /\ AfterCount(step, o2) = 1
    /\ \E o \in Occurrences(node_index) :
          o[1] = "implicit" /\ ~Fence(slots, o[3]) /\ BeforeCount(step, o) = 0
    /\ \E k \in 0..(step - 1) :
          LET n == execution_plan[k + 1].node_index
          IN  /\ n \notin node_has_fence
              /\ \E o \in Occurrences(n) : o[3] \in fenced
              /\ BeforesOf(k) = {} /\ AftersOf(k) = {}
              /\ ComputedOnce(k)

-----------------------------------------------------------------------------
(* C19 *)

\* the positions of the calls of UpdateMemoryPatternGroupCache
UpdateCalls == {i \in LogIdx : log[i].ev = "UpdateMemoryPatternGroupCache"}

\* the positions of the post-loop calls that failed after the gathering
FailedPatternCalls == {i \in PatternCalls : ~log[i].val}

\* the run was cancelled, or a lookup, a Compute, a release or the gathering
\* failed, or the frame has no planner
NoUpdateRun ==
    \/ PollsSet # {}
    \/ FailedLookups # {}
    \/ FailedComputes # {}
    \/ FailedReleases # {}
    \/ \E g \in GatherCalls : ~log[g].val
    \/ ~has_planner

\* C19: the cache update is called at most once in a run, and only after every
\* plan step has completed, the outputs have been gathered with success and
\* pattern generation has succeeded, in a frame that has a planner; a run that
\* was cancelled, lacked a kernel, failed in Compute, release or gathering, or
\* whose frame has no planner, has not called it; and when pattern generation
\* or the cache update fails, Execute returns that failure as its last call's
\* result while the fetches are already populated.
C19_CacheUpdate ==
    /\ Cardinality(UpdateCalls) <= 1
    /\ Len(cache_calls) = Cardinality(UpdateCalls)
    /\ \A u \in UpdateCalls :
          /\ \A k \in 0..(N - 1) : StepCompleted(k)
          /\ \E g \in GatherCalls : g < u /\ log[g].val
          /\ has_planner
          /\ \E p \in LogIdx : p < u /\ log[p].ev = "GeneratePatterns" /\ log[p].val
          /\ fetches = fetch_mlvalue_idxs
    /\ NoUpdateRun => UpdateCalls = {} /\ cache_calls = <<>>
    /\ \A i \in FailedPatternCalls :
          /\ Returned
          /\ i = Len(log)
          /\ status = MakeStatus(ONNXRUNTIME, FAIL,
                                 IF log[i].ev = "GeneratePatterns"
                                 THEN <<"GeneratePatterns failed">>
                                 ELSE <<"UpdateMemoryPatternGroupCache failed">>)
          /\ fetches = fetch_mlvalue_idxs

\* the cache update of a run of two or more steps that released a slot has
\* failed: Execute has returned the failure and the fetches are populated
C19_Witness ==
    /\ N >= 2
    /\ ReleasesDone # {}
    /\ Returned
    /\ ~IsOK(status)
    /\ Populated
    /\ \E u \in UpdateCalls : ~log[u].val

-----------------------------------------------------------------------------
(* C20 *)

\* the positions of the polls of the flag
Polls == {i \in LogIdx : log[i].ev = "Poll"}

\* no lookup, Compute, release, gathering, pattern generation or cache update
\* has failed
NoCallFailed ==
    /\ FailedLookups = {}
    /\ FailedComputes = {}
    /\ FailedReleases = {}
    /\ \A g \in GatherCalls : log[g].val
    /\ FailedPatternCalls = {}

\* C20: the flag is read once per step, as the first call of the step, and
\* nowhere else; so a run none of whose polls read true, and in which no call
\* failed, gathers the outputs and returns OK whatever the flag has become
\* since, and a cancellation failure is returned only by a poll that read true.
\* With an empty plan the flag is never read: the run gathers the outputs and,
\* when the gathering fails, returns its failure.
C20_PollOnly ==
    /\ \A i \in Polls : \A j \in 1..(i - 1) : log[j].step < log[i].step
    /\ N = 0 => Polls = {}
    /\ Returned /\ PollsSet = {} /\ NoCallFailed =>
          /\ IsOK(status)
          /\ GatherCalls # {}
          /\ fetches = fetch_mlvalue_idxs
    /\ Returned /\ status = TerminateStatus => PollsSet # {}
    /\ Returned /\ N = 0 =>
          /\ GatherCalls # {}
          /\ \A g \in GatherCalls : ~log[g].val => status = GetOutputsStatus(slots)

\* a run of two or more steps has returned OK with its fetches populated
\* although the flag is set: every step's poll had read false before
C20_Witness ==
    /\ N >= 2
    /\ Returned
    /\ IsOK(status)
    /\ terminate_flag
    /\ Cardinality(Polls) = N
    /\ PollsSet = {}
    /\ Populated
    /\ UpdateCalls # {}

====
